---- MODULE Spec2Model ----
(***************************************************************************)
(* Model of rng.py: a 16-bit pseudo-random generator (rng), the derived    *)
(* drop predicate, the minikraid outcome protocol, the findloop cycle      *)
(* detector and the driver loop that sweeps the seeds into a histogram.    *)
(***************************************************************************)
EXTENDS Integers, Sequences, FiniteSets, TLC

(* Number of seeds the driver sweeps (range(65536) in the program). *)
NumSeeds == 4052

(* findloop called on its own is started from the seeds 0..MaxCycleSeed. *)
MaxCycleSeed == 6

(* The stepwise drop() counts its rng() calls up to MaxCalls ("or more"). *)
MaxCalls == 3

(* findloop's map is compared with the whole orbit, at every step, when   *)
(* findloop is started from the seeds 0..MaxOrbitSeed.                     *)
MaxOrbitSeed == 2

(* Number of discarded generator calls in minikraid (range(176)). *)
BurnCount == 176

(* The generator states: 16-bit unsigned integers. *)
States == 0..65535

VARIABLES
    seed,         \* the global generator state
    s,            \* the driver's loop variable
    num_healths,  \* result of the first minikraid() of the iteration
    healths,      \* the histogram, indices 0..5
    hist_idx,     \* value of minikraid() used to index healths at line 44
    seen,         \* findloop's dictionary: state -> step index
    i,            \* findloop's step counter
    out,          \* the lines printed so far
    val,          \* drop's local val
    calls,        \* number of rng() calls made by the last call
    arg,          \* the generator state at the time of the last call
    op,           \* the function last called on its own
    ret,          \* the value that call returned
    drops,        \* minikraid's five drop() results a, b, c, d and the last
    pc            \* position of the program

vars == <<seed, s, num_healths, healths, hist_idx, seen, i, out,
          val, calls, arg, op, ret, drops, pc>>

(* The variables only the calls of a single function use. *)
callVars == <<val, calls, arg, op, ret, drops>>

(* The variables only the driver and findloop use. *)
driverVars == <<s, num_healths, healths, hist_idx, seen, i, out>>

(* ------------------------------ generator ------------------------------ *)

(* rng() without the + 0x100 of line 8. *)
rngNoIncrement(x) ==
    LET result0 == (x % 256) * 5
        hi      == (((x \div 256) % 256) * 5) % 256
        result1 == result0 + (hi * 256)
        result  == ((result1 \div 65536) + result1 + 17) % 65536
    IN  [seed |-> result, ret |-> result]

(* rng() whose line 9 only masks to 16 bits: no carry fold, no + 0x11. *)
rngNoFold(x) ==
    LET result0 == (x % 256) * 5
        hi      == (((x \div 256) % 256) * 5) % 256
        result1 == result0 + (hi * 256) + 256
        result  == result1 % 65536
    IN  [seed |-> result, ret |-> result]

(* rng() without the & 0xFFFF of line 9. *)
rngNoMask(x) ==
    LET result0 == (x % 256) * 5
        hi      == (((x \div 256) % 256) * 5) % 256
        result1 == result0 + (hi * 256) + 256
        result  == (result1 \div 65536) + result1 + 17
    IN  [seed |-> result, ret |-> result]

(* rng() with >> 8 in place of >> 16 in line 9. *)
rngShift8(x) ==
    LET result0 == (x % 256) * 5
        hi      == (((x \div 256) % 256) * 5) % 256
        result1 == result0 + (hi * 256) + 256
        result  == ((result1 \div 256) + result1 + 17) % 65536
    IN  [seed |-> result, ret |-> result]

(* lines 6-8: the value of result before line 9 folds and masks it. *)
combined(x) ==
    ((x % 256) * 5) + (((((x \div 256) % 256) * 5) % 256) * 256) + 256

(* rng(): one advance from state x; seed is the new state, ret the result. *)
rng(x) ==
    LET result0 == (x % 256) * 5
        hi      == (((x \div 256) % 256) * 5) % 256
        result1 == result0 + (hi * 256) + 256
        result  == ((result1 \div 65536) + result1 + 17) % 65536
    IN  [seed |-> result, ret |-> result]

(* drop(): the while loop, entered with the state x, the local val (v) and *)
(* the number n of rng() calls made so far by this drop().                 *)
RECURSIVE dropLoop(_, _, _)
dropLoop(x, v, n) ==
    IF v = 0
    THEN LET r == rng(x) IN dropLoop(r.seed, r.ret % 256, n + 1)
    ELSE [seed |-> x, ret |-> (v = 1), calls |-> n]

drop(x) == dropLoop(x, 0, 0)

(* int(b) of a Python bool. *)
int(b) == IF b THEN 1 ELSE 0

(* for i in range(n): rng()  -- the state after n successive rng() calls   *)
(* from the 16-bit state x.  The n calls are composed by halving,          *)
(* n = n \div 2 + (n - n \div 2), which keeps the evaluation depth          *)
(* logarithmic in n.                                                       *)
RECURSIVE burn(_, _)
burn(x, n) ==
    IF x \in States /\ n > 1
    THEN burn(burn(x, n \div 2), n - (n \div 2))
    ELSE IF n = 1 THEN rng(x).seed ELSE x

(* minikraid() that leaves the last drop() out of the returned sum. *)
minikraidWithoutLast(x) ==
    LET r1 == rng(x)
        a  == drop(r1.seed)
        r2 == rng(a.seed)
        b  == drop(r2.seed)
        r3 == rng(b.seed)
        c  == drop(r3.seed)
        r4 == rng(c.seed)
        d  == drop(r4.seed)
        w  == burn(d.seed, BurnCount)
        e  == drop(w)
    IN  [seed  |-> e.seed,
         ret   |-> int(a.ret) + int(b.ret) + int(c.ret) + int(d.ret),
         drops |-> <<a.ret, b.ret, c.ret, d.ret, e.ret>>,
         calls |-> 4 + a.calls + b.calls + c.calls + d.calls + BurnCount + e.calls]

(* minikraid() run from state x: final state, returned count, the five     *)
(* drop results and the number of rng() calls made.                        *)
minikraid(x) ==
    LET r1 == rng(x)
        a  == drop(r1.seed)
        r2 == rng(a.seed)
        b  == drop(r2.seed)
        r3 == rng(b.seed)
        c  == drop(r3.seed)
        r4 == rng(c.seed)
        d  == drop(r4.seed)
        w  == burn(d.seed, BurnCount)
        e  == drop(w)
    IN  [seed  |-> e.seed,
         ret   |-> int(a.ret) + int(b.ret) + int(c.ret) + int(d.ret) + int(e.ret),
         drops |-> <<a.ret, b.ret, c.ret, d.ret, e.ret>>,
         calls |-> 4 + a.calls + b.calls + c.calls + d.calls + BurnCount + e.calls]

(* ------------------------------- driver -------------------------------- *)

EmptyMap == [k \in {} |-> 0]

Init ==
    /\ seed = 0
    /\ s = 0
    /\ num_healths = 0
    /\ healths = [k \in 0..5 |-> 0]
    /\ hist_idx = 0
    /\ seen = EmptyMap
    /\ i = 0
    /\ out = <<>>
    /\ val = 0
    /\ calls = 0
    /\ arg = 0
    /\ op = "none"
    /\ ret = 0
    /\ drops = <<>>
    /\ pc = "seed"

(* SeedInit without the assignment: the iteration starts from the state    *)
(* the previous iteration left.                                            *)
SeedInitNoReset ==
    /\ pc = "seed"
    /\ pc' = "run1"
    /\ UNCHANGED <<seed, s, num_healths, healths, hist_idx, seen, i, out, callVars>>

(* line 38: seed = s *)
SeedInit ==
    /\ pc = "seed"
    /\ seed' = s
    /\ pc' = "run1"
    /\ UNCHANGED <<s, num_healths, healths, hist_idx, seen, i, out, callVars>>

(* line 39: num_healths = minikraid() *)
FirstRun ==
    /\ pc = "run1"
    /\ LET r == minikraid(seed) IN
        /\ seed' = r.seed
        /\ num_healths' = r.ret
    /\ pc' = "test"
    /\ UNCHANGED <<s, healths, hist_idx, seen, i, out, callVars>>

(* line 40: if num_healths == 2 *)
Test ==
    /\ pc = "test"
    /\ pc' = IF num_healths = 2 THEN "printseed" ELSE "hist"
    /\ UNCHANGED <<seed, s, num_healths, healths, hist_idx, seen, i, out, callVars>>

(* PrintSeed without line 42: findloop runs from the state minikraid left. *)
PrintSeedNoReset ==
    /\ pc = "printseed"
    /\ out' = Append(out, [kind |-> "seed", s |-> s])
    /\ seen' = EmptyMap
    /\ i' = 0
    /\ pc' = "findloop"
    /\ UNCHANGED <<seed, s, num_healths, healths, hist_idx, callVars>>

(* lines 41-43, 25-26: print(s); seed = s; findloop() entered *)
PrintSeed ==
    /\ pc = "printseed"
    /\ out' = Append(out, [kind |-> "seed", s |-> s])
    /\ seed' = s
    /\ seen' = EmptyMap
    /\ i' = 0
    /\ pc' = "findloop"
    /\ UNCHANGED <<s, num_healths, healths, hist_idx, callVars>>

(* FindLoopStep without line 28: the state is not recorded in seen. *)
FindLoopStepNoRecord ==
    /\ pc = "findloop"
    /\ seed \notin DOMAIN seen
    /\ seed' = rng(seed).seed
    /\ i' = i + 1
    /\ UNCHANGED <<s, num_healths, healths, hist_idx, seen, out, pc, callVars>>

(* FindLoopStep with i incremented before the state is recorded. *)
FindLoopStepLateIndex ==
    /\ pc = "findloop"
    /\ seed \notin DOMAIN seen
    /\ seen' = [k \in (DOMAIN seen) \cup {seed} |-> IF k = seed THEN i + 1 ELSE seen[k]]
    /\ seed' = rng(seed).seed
    /\ i' = i + 1
    /\ UNCHANGED <<s, num_healths, healths, hist_idx, out, pc, callVars>>

(* lines 27-30: one iteration of findloop's while loop *)
FindLoopStep ==
    /\ pc = "findloop"
    /\ seed \notin DOMAIN seen
    /\ seen' = [k \in (DOMAIN seen) \cup {seed} |-> IF k = seed THEN i ELSE seen[k]]
    /\ seed' = rng(seed).seed
    /\ i' = i + 1
    /\ UNCHANGED <<s, num_healths, healths, hist_idx, out, pc, callVars>>

(* FindLoopExit with length = i, before not subtracted. *)
FindLoopExitNoSubtract ==
    /\ pc = "findloop"
    /\ seed \in DOMAIN seen
    /\ LET before == seen[seed]
           length == i
       IN  out' = Append(out, [kind |-> "prefix", before |-> before, length |-> length])
    /\ pc' = "hist"
    /\ UNCHANGED <<seed, s, num_healths, healths, hist_idx, seen, i, callVars>>

(* lines 31-33: the loop exits; before, length are printed *)
FindLoopExit ==
    /\ pc = "findloop"
    /\ seed \in DOMAIN seen
    /\ LET before == seen[seed]
           length == i - before
       IN  out' = Append(out, [kind |-> "prefix", before |-> before, length |-> length])
    /\ pc' = "hist"
    /\ UNCHANGED <<seed, s, num_healths, healths, hist_idx, seen, i, callVars>>

(* HistRun with the bucket assigned 1 instead of incremented. *)
HistRunAssign ==
    /\ pc = "hist"
    /\ LET r == minikraid(seed) IN
        /\ seed' = r.seed
        /\ hist_idx' = r.ret
        /\ healths' = [healths EXCEPT ![r.ret] = 1]
    /\ s' = s + 1
    /\ pc' = IF s + 1 < NumSeeds THEN "seed" ELSE "print"
    /\ UNCHANGED <<num_healths, seen, i, out, callVars>>

(* line 44 and the loop's next step: healths[minikraid()] += 1 *)
HistRun ==
    /\ pc = "hist"
    /\ LET r == minikraid(seed) IN
        /\ seed' = r.seed
        /\ hist_idx' = r.ret
        /\ healths' = [healths EXCEPT ![r.ret] = @ + 1]
    /\ s' = s + 1
    /\ pc' = IF s + 1 < NumSeeds THEN "seed" ELSE "print"
    /\ UNCHANGED <<num_healths, seen, i, out, callVars>>

(* line 46: print(healths) *)
PrintHealths ==
    /\ pc = "print"
    /\ out' = Append(out, [kind |-> "healths", healths |-> healths])
    /\ pc' = "done"
    /\ UNCHANGED <<seed, s, num_healths, healths, hist_idx, seen, i, callVars>>

Next ==
    \/ SeedInit
    \/ FirstRun
    \/ Test
    \/ PrintSeed
    \/ FindLoopStep
    \/ FindLoopExit
    \/ HistRun
    \/ PrintHealths

Spec == Init /\ [][Next]_vars

(* ------------------- the functions called on their own ------------------ *)

(* The generator is initialized to any 16-bit state, then one function is  *)
(* called.                                                                 *)
InitFn ==
    /\ seed \in States
    /\ arg = seed
    /\ s = 0
    /\ num_healths = 0
    /\ healths = [k \in 0..5 |-> 0]
    /\ hist_idx = 0
    /\ seen = EmptyMap
    /\ i = 0
    /\ out = <<>>
    /\ val = 0
    /\ calls = 0
    /\ op = "none"
    /\ ret = 0
    /\ drops = <<>>
    /\ pc = "call"

(* rng() *)
CallRng ==
    /\ pc = "call"
    /\ LET r == rng(seed) IN
        /\ seed' = r.seed
        /\ ret' = r.ret
    /\ calls' = 1
    /\ op' = "rng"
    /\ pc' = "returned"
    /\ UNCHANGED <<val, arg, drops, driverVars>>

(* drop() *)
CallDrop ==
    /\ pc = "call"
    /\ LET r == drop(seed) IN
        /\ seed' = r.seed
        /\ ret' = r.ret
        /\ calls' = r.calls
    /\ op' = "drop"
    /\ pc' = "returned"
    /\ UNCHANGED <<val, arg, drops, driverVars>>

(* minikraid() *)
CallMinikraid ==
    /\ pc = "call"
    /\ LET r == minikraid(seed) IN
        /\ seed' = r.seed
        /\ ret' = r.ret
        /\ calls' = r.calls
        /\ drops' = r.drops
    /\ op' = "minikraid"
    /\ pc' = "returned"
    /\ UNCHANGED <<val, arg, driverVars>>

NextFn ==
    \/ CallRng
    \/ CallDrop
    \/ CallMinikraid

SpecFn == InitFn /\ [][NextFn]_vars

(* ------------------------- drop, one step at a time --------------------- *)

(* line 14: drop() entered with the generator in any 16-bit state; val = 0 *)
InitDrop ==
    /\ seed \in States
    /\ arg = seed
    /\ val = 0
    /\ calls = 0
    /\ op = "drop"
    /\ ret = FALSE
    /\ drops = <<>>
    /\ s = 0
    /\ num_healths = 0
    /\ healths = [k \in 0..5 |-> 0]
    /\ hist_idx = 0
    /\ seen = EmptyMap
    /\ i = 0
    /\ out = <<>>
    /\ pc = "drop"

(* DropStep with the mask 0x7F in place of 0xFF. *)
DropStepMask7 ==
    /\ pc = "drop"
    /\ val = 0
    /\ LET r == rng(seed) IN
        /\ seed' = r.seed
        /\ val' = r.ret % 128
    /\ calls' = IF calls < MaxCalls THEN calls + 1 ELSE calls
    /\ UNCHANGED <<arg, op, ret, drops, pc, driverVars>>

(* lines 15-16: while val == 0: val = rng() & 0xFF *)
DropStep ==
    /\ pc = "drop"
    /\ val = 0
    /\ LET r == rng(seed) IN
        /\ seed' = r.seed
        /\ val' = r.ret % 256
    /\ calls' = IF calls < MaxCalls THEN calls + 1 ELSE calls
    /\ UNCHANGED <<arg, op, ret, drops, pc, driverVars>>

(* line 17: return val == 1 *)
DropReturn ==
    /\ pc = "drop"
    /\ val # 0
    /\ ret' = (val = 1)
    /\ pc' = "returned"
    /\ UNCHANGED <<seed, val, calls, arg, op, drops, driverVars>>

NextDrop ==
    \/ DropStep
    \/ DropReturn

(* drop() runs to completion: the interpreter keeps executing the loop     *)
(* while a step is possible.                                               *)
SpecDrop == InitDrop /\ [][NextDrop]_vars /\ WF_vars(NextDrop)

(* --------------------------- findloop on its own ------------------------ *)

CycleSeeds == 0..MaxCycleSeed

(* lines 42-43, 25-26: seed = s; findloop() entered, for a seed s that the *)
(* caller chose.                                                           *)
InitCycle ==
    /\ s \in CycleSeeds
    /\ seed = s
    /\ num_healths = 0
    /\ healths = [k \in 0..5 |-> 0]
    /\ hist_idx = 0
    /\ seen = EmptyMap
    /\ i = 0
    /\ out = <<>>
    /\ val = 0
    /\ calls = 0
    /\ arg = 0
    /\ op = "none"
    /\ ret = 0
    /\ drops = <<>>
    /\ pc = "findloop"

NextCycle ==
    \/ FindLoopStep
    \/ FindLoopExit

SpecCycle == InitCycle /\ [][NextCycle]_vars

(* findloop runs to completion: the interpreter keeps executing the loop   *)
(* while a step is possible.                                               *)
SpecCycleRun == SpecCycle /\ WF_vars(NextCycle)

(* findloop entered as in InitCycle, from one of the seeds 0..MaxOrbitSeed. *)
InitCycleOrbit ==
    /\ InitCycle
    /\ s <= MaxOrbitSeed

SpecCycleOrbit == InitCycleOrbit /\ [][NextCycle]_vars

(* =============================== claims ================================ *)

(* The sum of the six histogram buckets. *)
SumHealths ==
    healths[0] + healths[1] + healths[2] + healths[3] + healths[4] + healths[5]

(* C1: in the driver, the minikraid() run whose result increments the      *)
(* histogram begins with the generator state equal to the seed s of the    *)
(* iteration (freshly re-initialized), not with a state left behind by the *)
(* first run or by findloop.                                               *)
C1_SecondRunStartsFromSeed ==
    pc = "hist" => seed = s

(* C2: after the sweep, every histogram bucket k holds the number of swept *)
(* seeds t for which minikraid(), run from the generator initialized to t, *)
(* returns k.                                                              *)
C2_HistogramCountsSeedOutcomes ==
    pc \in {"print", "done"} =>
        \A k \in 0..5 :
            healths[k] = Cardinality({t \in 0..(NumSeeds - 1) : minikraid(t).ret = k})

(* C7: the histogram has exactly the buckets 0..5, only an index in 0..5   *)
(* is ever incremented, after the iterations for seeds 0..n-1 the buckets  *)
(* sum to n, and after the whole sweep they sum to the number of seeds.    *)
C7_BucketsSumToIterations ==
    /\ DOMAIN healths = 0..5
    /\ hist_idx \in 0..5
    /\ \A k \in 0..5 : healths[k] >= 0
    /\ SumHealths = s
    /\ pc \in {"print", "done"} => SumHealths = NumSeeds

(* C7 witness: the sweep is over, every seed is counted, in more than one  *)
(* bucket.                                                                 *)
C7_Witness ==
    /\ pc = "done"
    /\ SumHealths = NumSeeds
    /\ healths[0] > 0
    /\ healths[1] > 0

(* The first n >= 1 states of the orbit of x: x, rng(x), rng(rng(x)), ...   *)
RECURSIVE OrbitSeq(_, _)
OrbitSeq(x, n) ==
    IF x \in States /\ n > 1
    THEN LET a == OrbitSeq(x, n \div 2)
         IN  a \o OrbitSeq(rng(a[Len(a)]).seed, n - (n \div 2))
    ELSE <<x>>

(* P and L are the pre-period and the period of the orbit of x: the state  *)
(* after P + L advances is the state after P advances, and the states      *)
(* after 0 .. P + L - 1 advances are pairwise distinct.                    *)
IsCycleStats(x, P, L) ==
    /\ P >= 0
    /\ L >= 1
    /\ LET o == OrbitSeq(x, P + L + 1) IN
        /\ o[P + L + 1] = o[P + 1]
        /\ Cardinality({o[k] : k \in 1..(P + L)}) = P + L

C3_OutcomeCountsTrueDrops ==
    (pc = "returned" /\ op = "minikraid") =>
        /\ ret \in 0..5
        /\ Len(drops) = 5
        /\ \A k \in 1..5 : drops[k] \in BOOLEAN
        /\ ret = Cardinality({k \in 1..5 : drops[k]})

(* C3 witness: a minikraid() call has returned 2, with two true drops and  *)
(* three false ones.                                                       *)
C3_Witness ==
    /\ pc = "returned"
    /\ op = "minikraid"
    /\ ret = 2
    /\ Cardinality({k \in 1..5 : drops[k]}) = 2
    /\ Cardinality({k \in 1..5 : ~drops[k]}) = 3

(* C8: with the generator state equal to 0, one rng() call sets the state  *)
(* to 0x0111 = 273 and returns 273.                                        *)
C8_AdvanceFromZero ==
    (pc = "returned" /\ op = "rng" /\ arg = 0) => (seed = 273 /\ ret = 273)

(* C8 witness: rng() has been called with the generator state 0.           *)
C8_Witness ==
    /\ pc = "returned"
    /\ op = "rng"
    /\ arg = 0
    /\ seed = 273

(* findloop, started from seed s, has returned and printed its line. *)
FindLoopReturned ==
    /\ pc = "hist"
    /\ Len(out) > 0
    /\ out[Len(out)].kind = "prefix"

(* C5: findloop started with the generator at seed s reports a prefix      *)
(* P >= 0 and a length L >= 1 such that the state after P + L rng() calls  *)
(* from s is the state after P rng() calls from s.                         *)
C5_CycleRevisitsPrefixState ==
    FindLoopReturned =>
        LET P == out[Len(out)].before
            L == out[Len(out)].length
        IN  /\ P >= 0
            /\ L >= 1
            /\ burn(s, P + L) = burn(s, P)

(* C5 witness: findloop has returned with a prefix of 30 steps before a    *)
(* cycle of 809 (from seed 6).                                             *)
C5_Witness ==
    /\ FindLoopReturned
    /\ out[Len(out)].before = 30
    /\ out[Len(out)].length = 809
    /\ burn(s, 30 + 809) = seed

(* While findloop runs, the states it has recorded are i distinct 16-bit  *)
(* states, so that i never exceeds 65536; the reported prefix and length   *)
(* add up to the i of the exit.                                            *)
C6_LoopWithinStateSpace ==
    /\ pc = "findloop" =>
        /\ DOMAIN seen \subseteq States
        /\ Cardinality(DOMAIN seen) = i
        /\ i <= 65536
    /\ FindLoopReturned =>
        /\ out[Len(out)].before + out[Len(out)].length = i
        /\ i <= 65536

(* C6 witness: findloop's loop has stopped, after at least 800 steps, on a *)
(* state it had recorded.                                                  *)
C6_Witness ==
    /\ FindLoopReturned
    /\ i >= 800
    /\ Cardinality(DOMAIN seen) = i
    /\ seed \in DOMAIN seen

(* C6: findloop terminates within the state space: its loop always stops,  *)
(* it never makes more than 65536 rng() calls (the recorded states are i   *)
(* distinct 16-bit states), and the reported prefix and length add up to   *)
(* the number i of calls made, so prefix + length <= 65536.                *)
C6_FindLoopStopsWithinStateSpace ==
    []C6_LoopWithinStateSpace /\ <>FindLoopReturned

(* C10: drop() called with the generator in any of the 65536 states        *)
(* returns: repeated rng() calls reach a state with a nonzero low byte.    *)
C10_DropTerminates ==
    <>(pc = "returned" /\ val # 0 /\ seed % 256 = val)

(* C10 witness: drop() has returned after a retry, its first rng() call    *)
(* having produced a zero low byte.                                        *)
C10_Witness ==
    /\ pc = "returned"
    /\ op = "drop"
    /\ calls = 2
    /\ rng(arg).seed % 256 = 0
    /\ seed % 256 # 0

(* C11: every drop() call makes at least one rng() call, returns with the *)
(* generator in a state whose low byte is nonzero, has passed, between its *)
(* first rng() call and the last, only through states whose low byte is    *)
(* zero, and returns true exactly if the low byte of the final state is 1. *)
C11_DropContract ==
    /\ (pc = "drop" /\ calls >= 1) => val = seed % 256
    /\ pc = "returned" =>
        /\ calls >= 1
        /\ seed % 256 # 0
        /\ ret = (seed % 256 = 1)
        /\ calls < MaxCalls =>
            /\ seed = burn(arg, calls)
            /\ \A k \in 1..(calls - 1) : burn(arg, k) % 256 = 0

(* C11 witness: drop() has returned true, the low byte being 1. *)
C11_Witness ==
    /\ pc = "returned"
    /\ op = "drop"
    /\ ret = TRUE
    /\ calls = 1
    /\ seed % 256 = 1

(* The states from which one rng() call yields a state with low byte 0,    *)
(* read off lines 6-9: 5 * 99 + 0x11 = 0x200 without the carry of line 9,  *)
(* 5 * 150 + 0x11 + 1 = 0x300 with it.                                     *)
ProducesZeroLowByte(x) ==
    LET low == x % 256
        hi5 == ((x \div 256) * 5) % 256
    IN  \/ (low = 99 /\ hi5 <= 253)
        \/ (low = 150 /\ hi5 >= 253)

(* C12: state 0 is the only state producing a zero low byte: no state      *)
(* other than 0 advances to a state with low byte 0, a drop() retry only   *)
(* ever happens in state 0, and state 0 advances to a nonzero low byte.    *)
C12_OnlyZeroProducesZeroLowByte ==
    /\ (calls = 1 /\ arg # 0) => seed % 256 # 0
    /\ (pc = "drop" /\ calls >= 1 /\ val = 0) => seed = 0
    /\ (calls = 1 /\ arg = 0) => seed % 256 # 0

(* C12 as amended: the states that advance to a zero low byte are those    *)
(* with low byte 99 and (5 * high) mod 256 <= 253 and those with low byte  *)
(* 150 and (5 * high) mod 256 >= 253 (state 0 is not one of them); every   *)
(* state with a zero low byte, state 0 included, advances to low byte 17   *)
(* or 18, so a drop() retry always leaves the zero low byte.               *)
C12_ZeroLowByteProducers ==
    /\ calls = 1 => ((seed % 256 = 0) <=> ProducesZeroLowByte(arg))
    /\ (calls = 1 /\ arg % 256 = 0) => seed % 256 \in {17, 18}
    /\ calls = 2 =>
        /\ ProducesZeroLowByte(arg)
        /\ val = seed % 256
        /\ val \in {17, 18}

(* C12 witness: drop() is about to retry, its rng() call from state 99     *)
(* having produced state 0x0300.                                           *)
C12_Witness ==
    /\ pc = "drop"
    /\ calls = 1
    /\ val = 0
    /\ arg = 99
    /\ seed = 768

(* C13: the generator state is a 16-bit unsigned integer: whatever 16-bit *)
(* state rng(), drop() or minikraid() is called in, the state it leaves is *)
(* in 0..65535 (and so is the value rng() returns), also when the value of *)
(* lines 6-8 exceeds 16 bits.                                              *)
C13_StateIs16Bit ==
    /\ seed \in States
    /\ arg \in States
    /\ (pc = "returned" /\ op = "rng") => (ret \in States /\ ret = seed)

(* C13 witness: rng() has been called in a state where the value of lines  *)
(* 6-8 does not fit 16 bits, and the new state does.                       *)
C13_Witness ==
    /\ pc = "returned"
    /\ op = "rng"
    /\ combined(arg) >= 65536
    /\ seed \in States

(* C15: no state with a zero low byte advances to a state with a zero low *)
(* byte, so drop() makes 1 or 2 rng() calls from every state, and          *)
(* minikraid() makes between 185 and 190 rng() calls.                      *)
C15_AdvanceCounts ==
    pc = "returned" =>
        /\ (op = "rng" /\ arg % 256 = 0) => seed % 256 # 0
        /\ op = "drop" => calls \in 1..2
        /\ op = "minikraid" => calls \in 185..190

(* C15 witness: a minikraid() call has returned after more than 185        *)
(* rng() calls, a drop() in it having retried.                             *)
C15_Witness ==
    /\ pc = "returned"
    /\ op = "minikraid"
    /\ calls > 185
    /\ calls <= 190

(* C14: what the driver's iteration for a seed produces is a function of  *)
(* the seed alone, whatever state earlier iterations left: the iteration   *)
(* starts from the generator set to s; the first outcome is that of        *)
(* minikraid() from s; findloop walks the orbit of s; and once the         *)
(* iteration for t = s - 1 is complete, a seed line for t was printed      *)
(* exactly if that outcome is 2, the prefix line carries the pre-period P  *)
(* and period L of t, and the bucket incremented is the outcome of         *)
(* minikraid() from the state P + L advances after t if the first outcome  *)
(* is 2, and from the state the first minikraid() from t left otherwise.   *)
C14_IterationDependsOnSeedOnly ==
    /\ pc = "run1" => seed = s
    /\ pc = "test" => num_healths = minikraid(s).ret
    /\ pc = "findloop" =>
        /\ minikraid(s).ret = 2
        /\ out[Len(out)] = [kind |-> "seed", s |-> s]
        /\ seed = burn(s, i)
    /\ (pc \in {"seed", "print"} /\ s > 0) =>
        LET t  == s - 1
            r1 == minikraid(t)
            n  == Len(out)
        IN  /\ (r1.ret = 2) <=> (\E j \in 1..n : out[j] = [kind |-> "seed", s |-> t])
            /\ IF r1.ret = 2
               THEN /\ n >= 2
                    /\ out[n - 1] = [kind |-> "seed", s |-> t]
                    /\ out[n].kind = "prefix"
                    /\ IsCycleStats(t, out[n].before, out[n].length)
                    /\ hist_idx = minikraid(burn(t, out[n].before + out[n].length)).ret
               ELSE hist_idx = minikraid(r1.seed).ret

(* C14 witness: the iteration of a seed with first outcome 2 is complete:  *)
(* its seed line and prefix line are printed and its bucket incremented.   *)
C14_Witness ==
    /\ pc \in {"seed", "print"}
    /\ s > 0
    /\ Len(out) >= 2
    /\ out[Len(out) - 1] = [kind |-> "seed", s |-> s - 1]
    /\ out[Len(out)].kind = "prefix"
    /\ healths[hist_idx] > 0

(* C16: what findloop reports is minimal.  While its loop runs, seen holds *)
(* exactly the states after 0 .. i-1 advances from the seed s, each mapped *)
(* to the number of advances at which it was first reached, and the        *)
(* generator is in the state after i advances; on return the states after  *)
(* 0 .. P+L-1 advances are pairwise distinct and the state after P + L     *)
(* advances is the one after P, so P is the pre-period and L the period.   *)
C16_ReportedCycleIsMinimal ==
    /\ pc = "findloop" =>
        LET o == OrbitSeq(s, i + 1)
        IN  /\ DOMAIN seen = {o[k] : k \in 1..i}
            /\ \A k \in 1..i : seen[o[k]] = k - 1
            /\ seed = o[i + 1]
    /\ FindLoopReturned =>
        /\ IsCycleStats(s, out[Len(out)].before, out[Len(out)].length)
        /\ seen[seed] = out[Len(out)].before

(* C16 witness: findloop has returned a prefix of 276 steps and a cycle of *)
(* 809 (seed 2), seen holding the 1085 states walked.                      *)
C16_Witness ==
    /\ FindLoopReturned
    /\ out[Len(out)].before = 276
    /\ out[Len(out)].length = 809
    /\ Cardinality(DOMAIN seen) = 1085

====
